---- MODULE Spec2Model ----
(***************************************************************************)
(* URL shortener (FastAPI + SQLite): src/main.py, src/api.py,              *)
(* src/models.py.                                                          *)
(*                                                                         *)
(* The store is the single SQLite table URLS.  Every store function opens  *)
(* its own connection; a writing statement takes the database write lock   *)
(* when it is executed and gives it up at conn.commit(), so the two        *)
(* writers (insert_url, deleteUrl) are modelled as an execute step, which  *)
(* is enabled once the lock is free, and a commit step, and the readers    *)
(* (get_url, getAllUrls) as one atomic read of the committed table.  What  *)
(* a handler does before its first statement touches only its own locals   *)
(* and is part of its execute step.                                        *)
(***************************************************************************)
EXTENDS Integers, Sequences, FiniteSets, TLC

(* ------------------------------ bounds --------------------------------- *)
\* request handlers that may be in flight at once (worker threads)
NumProcs == 2
\* rows ever inserted (bounds the AUTOINCREMENT counter)
MaxId == 3
\* seconds the clock may advance (CURRENT_TIMESTAMP has 1 s resolution)
MaxClock == 1

\* largest length passed to a direct call of generateshortcode
MaxLen == 2
MaxBoots == 2
MaxConns == 3

Procs == 1..NumProcs

\* the query parameter url is absent from the request
Missing == "<missing>"
\* url values a client may send; "" is POST /shortenURL?url=
Urls == {"", "https://a"}

(* ------------------------------ main.py --------------------------------- *)

\* string.ascii_lowercase, string.ascii_uppercase, string.digits
ascii_lowercase ==
    <<"a", "b", "c", "d", "e", "f", "g", "h", "i", "j", "k", "l", "m",
      "n", "o", "p", "q", "r", "s", "t", "u", "v", "w", "x", "y", "z">>
ascii_uppercase ==
    <<"A", "B", "C", "D", "E", "F", "G", "H", "I", "J", "K", "L", "M",
      "N", "O", "P", "Q", "R", "S", "T", "U", "V", "W", "X", "Y", "Z">>
digits == <<"0", "1", "2", "3", "4", "5", "6", "7", "8", "9">>

\* string.ascii_letters + string.digits
Alphabet == ascii_lowercase \o ascii_uppercase \o digits

\* def generateshortcode(length=6)
DefaultLength == 6

\* generateshortcode that draws one character too few (k=length - 1)
generateshortcode_short(length, draw) ==
    [i \in 1..(length - 1) |-> Alphabet[draw[i]]]

\* ''.join(random.choices(Alphabet, k=length)); draw[i] is the index that
\* random.choices picks for position i.  A code is the sequence of its
\* characters.
generateshortcode(length, draw) == [i \in 1..length |-> Alphabet[draw[i]]]

\* indices random.choices may pick in a direct call: the first and the last
\* letter (a, Z) and the first and the last digit (0, 9)
Picks == {1, 52, 53, 62}

\* two of the 62^6 draws of random.choices(k=6): aZ09bQ and x7Kp2m
Draws == {<<1, 52, 53, 62, 2, 43>>, <<24, 60, 37, 16, 55, 13>>}
\* the codes main.generateshortcode() returns for them
Codes == {generateshortcode(DefaultLength, d) : d \in Draws}
\* no short code (the empty string)
NoCode == <<>>

VARIABLES
    rows,     \* table URLS in rowid order: [id, url, short_url, created_at]
    seq,      \* sqlite_sequence for URLS: largest ID ever assigned
    clock,    \* wall clock in whole seconds
    writer,   \* the handlers holding the database write lock (at most one)
    pc,       \* per handler: "idle", "insert_commit", "delete_commit"
    req,      \* per handler: arguments of its write request in progress
    last,     \* the latest completed request and its response
    deleted,  \* codes deleted and not inserted since (history)
    issued,   \* every ID a committed insert has assigned (history)
    held,     \* per client thread: the url it posted, the short_code it got,
              \* and the body of its verifying GET
    gen,      \* the latest direct call of generateshortcode: length, result
    conns,    \* sqlite3 connections opened and not yet closed
    running,  \* the application process is up
    boots     \* how many times the process has started (init_db has run)

vars ==
    <<rows, seq, clock, writer, pc, req, last, deleted, issued, held, gen,
      conns, running, boots>>

(* --------------------------- models.py ---------------------------------- *)

\* insert_url as INSERT OR REPLACE on a unique SHORT_URL: the rows that
\* carry the code are dropped before the new row is added
insert_url_replace(rs, id, url, short_url, now) ==
    Append(SelectSeq(rs, LAMBDA r : r.short_url # short_url),
           [id |-> id, url |-> url, short_url |-> short_url,
            created_at |-> now])

\* insert_url as an upsert on SHORT_URL: the rows that carry the code get
\* the new URL, and a row is added only when there is none
insert_url_upsert(rs, id, url, short_url, now) ==
    IF \E i \in 1..Len(rs) : rs[i].short_url = short_url
    THEN [i \in 1..Len(rs) |->
             IF rs[i].short_url = short_url
             THEN [rs[i] EXCEPT !.url = url] ELSE rs[i]]
    ELSE Append(rs, [id |-> id, url |-> url, short_url |-> short_url,
                     created_at |-> now])

\* INSERT INTO URLS(URL, SHORT_URL) VALUES (?, ?): ID from AUTOINCREMENT,
\* CREATED_AT from DEFAULT CURRENT_TIMESTAMP.
insert_url(rs, id, url, short_url, now) ==
    Append(rs, [id |-> id, url |-> url, short_url |-> short_url,
                created_at |-> now])

\* ID INTEGER PRIMARY KEY without AUTOINCREMENT: one more than the largest
\* ID now stored
NextId_rowid(rs, sq) ==
    IF rs = <<>> THEN 1
    ELSE (CHOOSE m \in {rs[i].id : i \in 1..Len(rs)} :
              \A i \in 1..Len(rs) : rs[i].id <= m) + 1

\* ID INTEGER PRIMARY KEY AUTOINCREMENT: one more than the largest ID the
\* table has ever held (sqlite_sequence)
NextId(rs, sq) == sq + 1

\* rows a table scan yields for WHERE SHORT_URL = ?, in rowid order
Matching(rs, short_url) == SelectSeq(rs, LAMBDA r : r.short_url = short_url)

\* get_url with the WHERE clause lost: the first row of the table
get_url_unfiltered(rs, short_url) ==
    IF rs = <<>> THEN [null |-> TRUE, tuple |-> <<>>]
    ELSE [null |-> FALSE, tuple |-> <<rs[1].url>>]

\* SELECT URL FROM URLS WHERE SHORT_URL = ? ; cursor.fetchone().
\* No index exists on SHORT_URL, so the statement is a scan of the table in
\* rowid order and fetchone() is its first hit; None when there is no hit.
get_url(rs, short_url) ==
    LET m == Matching(rs, short_url)
    IN  IF m = <<>> THEN [null |-> TRUE, tuple |-> <<>>]
        ELSE [null |-> FALSE, tuple |-> <<m[1].url>>]

\* deleteUrl removing only the first matching row (DELETE ... LIMIT 1)
deleteUrl_first(rs, short_url) ==
    LET hits == {i \in 1..Len(rs) : rs[i].short_url = short_url}
    IN  IF hits = {} THEN rs
        ELSE LET k == CHOOSE i \in hits : \A j \in hits : i <= j
             IN  SubSeq(rs, 1, k - 1) \o SubSeq(rs, k + 1, Len(rs))

\* deleteUrl with the WHERE clause lost (DELETE FROM URLS) once a row matches
deleteUrl_all(rs, short_url) ==
    IF \E i \in 1..Len(rs) : rs[i].short_url = short_url THEN <<>> ELSE rs

\* deleteUrl with the comparison inverted (WHERE SHORT_URL != ?)
deleteUrl_inverted(rs, short_url) ==
    SelectSeq(rs, LAMBDA r : r.short_url = short_url)

\* DELETE FROM URLS WHERE SHORT_URL = ?
deleteUrl(rs, short_url) == SelectSeq(rs, LAMBDA r : r.short_url # short_url)

\* a sorter that puts a row before the rows of equal CREATED_AT
RECURSIVE SortInsert_strict(_, _)
SortInsert_strict(s, r) ==
    IF s = <<>> THEN <<r>>
    ELSE IF Head(s).created_at > r.created_at
         THEN <<Head(s)>> \o SortInsert_strict(Tail(s), r)
         ELSE <<r>> \o s

\* ORDER BY CREATED_AT DESC: SQLite's sorter keeps rows with equal keys in
\* the order the scan produced them (rowid order).
RECURSIVE SortInsert(_, _)
SortInsert(s, r) ==
    IF s = <<>> THEN <<r>>
    ELSE IF Head(s).created_at >= r.created_at
         THEN <<Head(s)>> \o SortInsert(Tail(s), r)
         ELSE <<r>> \o s

RECURSIVE OrderByCreatedAtDesc(_)
OrderByCreatedAtDesc(rs) ==
    IF rs = <<>> THEN <<>>
    ELSE SortInsert(OrderByCreatedAtDesc(SubSeq(rs, 1, Len(rs) - 1)),
                    rs[Len(rs)])

\* getAllUrls that loses the first row of the result (a fetchone() before
\* the fetchall())
getAllUrls_skip(rs) ==
    LET s == OrderByCreatedAtDesc(rs)
    IN  [i \in 1..(Len(s) - 1) |->
            [url |-> s[i + 1].url, short_url |-> s[i + 1].short_url]]

\* SELECT URL, SHORT_URL FROM URLS ORDER BY CREATED_AT DESC, as dicts
getAllUrls(rs) ==
    LET s == OrderByCreatedAtDesc(rs)
    IN  [i \in 1..Len(s) |-> [url |-> s[i].url, short_url |-> s[i].short_url]]

(* ----------------------------- responses -------------------------------- *)

\* body: null, {"short_code": code}, the tuple of get_url, or the list of
\* getAllUrls
Response(op, url, code, status, null, tuple, items) ==
    [op |-> op, url |-> url, code |-> code, status |-> status,
     null |-> null, tuple |-> tuple, items |-> items]

NoResponse == Response("none", Missing, NoCode, 0, TRUE, <<>>, <<>>)

NoRequest == [url |-> Missing, code |-> NoCode, created_at |-> 0]

NoCall == [length |-> 0, code |-> <<>>]

NoHeld ==
    [url |-> Missing, code |-> NoCode, step |-> "start", null |-> TRUE,
     tuple |-> <<>>]

Complete(r) == last' = r

(* ------------------------------- state ---------------------------------- *)

\* init_db() on a fresh database file: CREATE TABLE IF NOT EXISTS URLS
Init ==
    /\ rows = <<>>
    /\ seq = 0
    /\ clock = 0
    /\ writer = {}
    /\ pc = [p \in Procs |-> "idle"]
    /\ req = [p \in Procs |-> NoRequest]
    /\ last = NoResponse
    /\ deleted = {}
    /\ issued = {}
    /\ held = [p \in Procs |-> NoHeld]
    /\ gen = NoCall
    /\ conns = 0
    /\ running = TRUE
    /\ boots = 1

Tick ==
    /\ clock < MaxClock
    /\ clock' = clock + 1
    /\ UNCHANGED <<rows, seq, writer, pc, req, last, deleted, issued>>

(* ------------------------------ api.py ---------------------------------- *)

\* a handler that also rejects the empty string (if not url: 422)
UrlAccepted_nonempty(url) == url \notin {Missing, ""}

\* url: str = Query(...): the parameter is required, any string is accepted
UrlAccepted(url) == url # Missing

\* POST /shortenURL without url: 422 before the handler body runs
shorten_url_invalid(p, url) ==
    /\ pc[p] = "idle"
    /\ ~UrlAccepted(url)
    /\ Complete(Response("shorten", url, NoCode, 422, TRUE, <<>>, <<>>))
    /\ UNCHANGED <<rows, seq, clock, writer, pc, req, deleted, issued>>

\* POST /shortenURL?url=...: short_code = main.generateshortcode(), drawn
\* without looking at the store; then models.insert_url up to
\* cursor.execute(INSERT ...), which waits for the write lock, opens the
\* write transaction and evaluates CURRENT_TIMESTAMP.
shorten_url(p, url, code) ==
    /\ pc[p] = "idle"
    /\ UrlAccepted(url)
    /\ seq < MaxId
    /\ writer = {}
    /\ writer' = {p}
    /\ req' = [req EXCEPT ![p] = [url |-> url, code |-> code,
                                  created_at |-> clock]]
    /\ pc' = [pc EXCEPT ![p] = "insert_commit"]
    /\ UNCHANGED <<rows, seq, clock, last, deleted, issued>>

\* models.insert_url: conn.commit(); then return {"short_code": short_code}
insert_commit(p) ==
    /\ pc[p] = "insert_commit"
    /\ writer = {p}
    /\ rows' = insert_url(rows, NextId(rows, seq), req[p].url, req[p].code,
                          req[p].created_at)
    /\ seq' = NextId(rows, seq)
    /\ issued' = issued \cup {NextId(rows, seq)}
    /\ writer' = {}
    /\ pc' = [pc EXCEPT ![p] = "idle"]
    /\ deleted' = deleted \ {req[p].code}
    /\ Complete(Response("shorten", req[p].url, req[p].code, 200, FALSE,
                         <<>>, <<>>))
    /\ req' = [req EXCEPT ![p] = NoRequest]
    /\ UNCHANGED clock

\* DELETE /deleteUrl/{short_url}: cursor.execute(DELETE ...)
delete_execute(p, code) ==
    /\ pc[p] = "idle"
    /\ writer = {}
    /\ writer' = {p}
    /\ req' = [req EXCEPT ![p] = [url |-> Missing, code |-> code,
                                  created_at |-> 0]]
    /\ pc' = [pc EXCEPT ![p] = "delete_commit"]
    /\ UNCHANGED <<rows, seq, clock, last, deleted, issued>>

\* models.deleteUrl: conn.commit(); the handler returns None
delete_commit(p) ==
    /\ pc[p] = "delete_commit"
    /\ writer = {p}
    /\ rows' = deleteUrl(rows, req[p].code)
    /\ writer' = {}
    /\ pc' = [pc EXCEPT ![p] = "idle"]
    /\ deleted' = deleted \cup {req[p].code}
    /\ UNCHANGED issued
    /\ Complete(Response("delete", Missing, req[p].code, 200, TRUE, <<>>,
                         <<>>))
    /\ req' = [req EXCEPT ![p] = NoRequest]
    /\ UNCHANGED <<seq, clock>>

\* GET /s/{shortURL}
api_get_url(p, code) ==
    /\ pc[p] = "idle"
    /\ LET r == get_url(rows, code)
       IN  Complete(Response("lookup", Missing, code, 200, r.null, r.tuple,
                             <<>>))
    /\ UNCHANGED <<rows, seq, clock, writer, pc, req, deleted, issued>>

\* GET /getAllUrls
api_getAllUrls(p) ==
    /\ pc[p] = "idle"
    /\ Complete(Response("list", Missing, NoCode, 200, FALSE, <<>>,
                         getAllUrls(rows)))
    /\ UNCHANGED <<rows, seq, clock, writer, pc, req, deleted, issued>>


\* clients that issue any request at any time and keep no response
Next ==
    \/ Tick /\ UNCHANGED <<held, gen, conns, running, boots>>
    \/ \E p \in Procs, url \in Urls \cup {Missing} :
           shorten_url_invalid(p, url)
           /\ UNCHANGED <<held, gen, conns, running, boots>>
    \/ \E p \in Procs, url \in Urls \cup {Missing}, code \in Codes :
           shorten_url(p, url, code)
           /\ UNCHANGED <<held, gen, conns, running, boots>>
    \/ \E p \in Procs :
           insert_commit(p) /\ UNCHANGED <<held, gen, conns, running, boots>>
    \/ \E p \in Procs, code \in Codes :
           delete_execute(p, code)
           /\ UNCHANGED <<held, gen, conns, running, boots>>
    \/ \E p \in Procs :
           delete_commit(p) /\ UNCHANGED <<held, gen, conns, running, boots>>
    \/ \E p \in Procs, code \in Codes :
           api_get_url(p, code)
           /\ UNCHANGED <<held, gen, conns, running, boots>>
    \/ \E p \in Procs :
           api_getAllUrls(p) /\ UNCHANGED <<held, gen, conns, running, boots>>

Spec == Init /\ [][Next]_vars

(* ------------- tests/test_regression.py: create_and_verify -------------- *)
\* One client thread per handler: POST /shortenURL once, keep the code of the
\* response, then GET /s/{code}; the threads run concurrently.

client_post(p, url, code) ==
    /\ held[p].step = "start"
    /\ shorten_url(p, url, code)
    /\ UNCHANGED held

client_posted(p) ==
    /\ insert_commit(p)
    /\ held' = [held EXCEPT ![p] = [url |-> req[p].url, code |-> req[p].code,
                                     step |-> "posted", null |-> TRUE,
                                     tuple |-> <<>>]]

client_verify(p) ==
    /\ held[p].step = "posted"
    /\ api_get_url(p, held[p].code)
    /\ held' = [held EXCEPT ![p].step = "verified", ![p].null = last'.null,
                            ![p].tuple = last'.tuple]

NextBurst ==
    \/ Tick /\ UNCHANGED <<held, gen, conns, running, boots>>
    \/ \E p \in Procs, url \in Urls, code \in Codes :
           client_post(p, url, code)
           /\ UNCHANGED <<gen, conns, running, boots>>
    \/ \E p \in Procs :
           client_posted(p) /\ UNCHANGED <<gen, conns, running, boots>>
    \/ \E p \in Procs :
           client_verify(p) /\ UNCHANGED <<gen, conns, running, boots>>

SpecBurst == Init /\ [][NextBurst]_vars

(* ---------- tests/test_integration.py: test_concurrent_workflow --------- *)
\* The create_url threads post concurrently and are joined; then one
\* delete_url thread per created (url, short_code) runs, concurrently with
\* the others.

client_delete(p) ==
    /\ \A q \in Procs : held[q].step # "start"
    /\ held[p].step = "posted"
    /\ delete_execute(p, held[p].code)
    /\ UNCHANGED held

client_deleted(p) ==
    /\ delete_commit(p)
    /\ held' = [held EXCEPT ![p].step = "deleted"]

NextWorkflow ==
    \/ Tick /\ UNCHANGED <<held, gen, conns, running, boots>>
    \/ \E p \in Procs, url \in Urls, code \in Codes :
           client_post(p, url, code)
           /\ UNCHANGED <<gen, conns, running, boots>>
    \/ \E p \in Procs :
           client_posted(p) /\ UNCHANGED <<gen, conns, running, boots>>
    \/ \E p \in Procs :
           client_delete(p) /\ UNCHANGED <<gen, conns, running, boots>>
    \/ \E p \in Procs :
           client_deleted(p) /\ UNCHANGED <<gen, conns, running, boots>>

SpecWorkflow == Init /\ [][NextWorkflow]_vars

(* ------------- failures, crashes and restarts of the process ------------ *)

\* init_db as DROP TABLE IF EXISTS followed by CREATE TABLE
init_db_drop(table, rs, sq) == [rows |-> <<>>, seq |-> 0]

\* models.init_db: CREATE TABLE IF NOT EXISTS URLS(...); conn.commit().
\* table says whether URLS exists in the database file; the result is the
\* table and its sqlite_sequence entry afterwards.
init_db(table, rs, sq) ==
    IF table THEN [rows |-> rs, seq |-> sq] ELSE [rows |-> <<>>, seq |-> 0]

\* the database file does not exist and the application has not started
InitFault ==
    /\ rows = <<>>
    /\ seq = 0
    /\ clock = 0
    /\ writer = {}
    /\ pc = [p \in Procs |-> "idle"]
    /\ req = [p \in Procs |-> NoRequest]
    /\ last = NoResponse
    /\ deleted = {}
    /\ issued = {}
    /\ held = [p \in Procs |-> NoHeld]
    /\ gen = NoCall
    /\ conns = 0
    /\ running = FALSE
    /\ boots = 0

\* the statement the handler has executed and not committed, applied
Pending(p) ==
    IF pc[p] = "insert_commit"
    THEN [rows |-> insert_url(rows, NextId(rows, seq), req[p].url,
                              req[p].code, req[p].created_at),
          seq |-> NextId(rows, seq)]
    ELSE [rows |-> deleteUrl(rows, req[p].code), seq |-> seq]

\* a with block that commits on every exit (finally: conn.commit())
abort_commit(p) ==
    /\ pc[p] \in {"insert_commit", "delete_commit"}
    /\ writer = {p}
    /\ rows' = Pending(p).rows
    /\ seq' = Pending(p).seq
    /\ writer' = {}
    /\ pc' = [pc EXCEPT ![p] = "idle"]
    /\ Complete(Response(IF pc[p] = "insert_commit" THEN "shorten"
                         ELSE "delete",
                         req[p].url, req[p].code, 500, TRUE, <<>>, <<>>))
    /\ req' = [req EXCEPT ![p] = NoRequest]
    /\ UNCHANGED <<clock, deleted, issued>>

\* insert_url / deleteUrl: an exception after cursor.execute and before
\* conn.commit() has taken effect leaves the with block, whose exit rolls
\* the transaction back; the handler answers 500.
abort(p) ==
    /\ pc[p] \in {"insert_commit", "delete_commit"}
    /\ writer = {p}
    /\ writer' = {}
    /\ pc' = [pc EXCEPT ![p] = "idle"]
    /\ Complete(Response(IF pc[p] = "insert_commit" THEN "shorten"
                         ELSE "delete",
                         req[p].url, req[p].code, 500, TRUE, <<>>, <<>>))
    /\ req' = [req EXCEPT ![p] = NoRequest]
    /\ UNCHANGED <<rows, seq, clock, deleted, issued>>

\* the process dies: its handlers are gone, and the transaction one of them
\* had open is rolled back from the journal when the file is next opened
crash ==
    /\ running
    /\ running' = FALSE
    /\ writer' = {}
    /\ pc' = [p \in Procs |-> "idle"]
    /\ req' = [p \in Procs |-> NoRequest]
    /\ UNCHANGED <<rows, seq, clock, last, deleted, issued, boots>>

\* the process starts: importing main runs init_db()
start ==
    /\ ~running
    /\ boots < MaxBoots
    /\ running' = TRUE
    /\ boots' = boots + 1
    /\ rows' = init_db(boots > 0, rows, seq).rows
    /\ seq' = init_db(boots > 0, rows, seq).seq
    /\ UNCHANGED <<clock, writer, pc, req, last, deleted, issued>>

\* requests, failures, crashes and restarts within one second of the clock
NextFault ==
    \/ \E p \in Procs, url \in Urls, code \in Codes :
           /\ running
           /\ shorten_url(p, url, code)
           /\ UNCHANGED <<held, gen, conns, running, boots>>
    \/ \E p \in Procs :
           insert_commit(p) /\ UNCHANGED <<held, gen, conns, running, boots>>
    \/ \E p \in Procs, code \in Codes :
           /\ running
           /\ delete_execute(p, code)
           /\ UNCHANGED <<held, gen, conns, running, boots>>
    \/ \E p \in Procs :
           delete_commit(p) /\ UNCHANGED <<held, gen, conns, running, boots>>
    \/ \E p \in Procs, code \in Codes :
           /\ running
           /\ api_get_url(p, code)
           /\ UNCHANGED <<held, gen, conns, running, boots>>
    \/ \E p \in Procs :
           /\ running
           /\ api_getAllUrls(p)
           /\ UNCHANGED <<held, gen, conns, running, boots>>
    \/ \E p \in Procs :
           abort(p) /\ UNCHANGED <<held, gen, conns, running, boots>>
    \/ crash /\ UNCHANGED <<held, gen, conns>>
    \/ start /\ UNCHANGED <<held, gen, conns>>

SpecFault == InitFault /\ [][NextFault]_vars

(* ----------------------- sqlite3 connections --------------------------- *)

\* sqlite3.connect(DBNAME): one more open connection
connect(c) == c + 1

\* the end of "with sqlite3.connect(DBNAME) as conn": Connection.__exit__
\* commits or rolls back and does not close, and no function of models.py
\* calls conn.close()
exit_with(c) == c

\* connections still referenced by a function of models.py that has not
\* returned
InUse == Cardinality({p \in Procs : pc[p] # "idle"})

\* the interpreter's collector finalizes the Connection objects that have
\* become unreachable, which closes them; it runs at a time of its choosing
collect ==
    /\ conns > InUse
    /\ conns' = InUse
    /\ UNCHANGED <<rows, seq, clock, writer, pc, req, last, deleted, issued>>

\* the requests of Next within one second of the clock, with the
\* connection each one opens; MaxConns bounds the connections open at once
NextConn ==
    \/ \E p \in Procs, url \in Urls, code \in Codes :
           /\ conns < MaxConns
           /\ shorten_url(p, url, code)
           /\ conns' = connect(conns)
           /\ UNCHANGED <<held, gen, running, boots>>
    \/ \E p \in Procs :
           /\ insert_commit(p)
           /\ conns' = exit_with(conns)
           /\ UNCHANGED <<held, gen, running, boots>>
    \/ \E p \in Procs, code \in Codes :
           /\ conns < MaxConns
           /\ delete_execute(p, code)
           /\ conns' = connect(conns)
           /\ UNCHANGED <<held, gen, running, boots>>
    \/ \E p \in Procs :
           /\ delete_commit(p)
           /\ conns' = exit_with(conns)
           /\ UNCHANGED <<held, gen, running, boots>>
    \/ \E p \in Procs, code \in Codes :
           /\ conns < MaxConns
           /\ api_get_url(p, code)
           /\ conns' = exit_with(connect(conns))
           /\ UNCHANGED <<held, gen, running, boots>>
    \/ \E p \in Procs :
           /\ conns < MaxConns
           /\ api_getAllUrls(p)
           /\ conns' = exit_with(connect(conns))
           /\ UNCHANGED <<held, gen, running, boots>>
    \/ collect /\ UNCHANGED <<held, gen, running, boots>>

SpecConn == Init /\ [][NextConn]_vars

(* ---------------- main.generateshortcode called directly ---------------- *)

\* generateshortcode(length) with the draw random.choices makes
call_generateshortcode(length, draw) ==
    /\ gen' = [length |-> length, code |-> generateshortcode(length, draw)]
    /\ UNCHANGED <<rows, seq, clock, writer, pc, req, last, deleted, issued,
                   held, conns, running, boots>>

\* direct calls with any length, next to POST /shortenURL requests, which
\* call generateshortcode() with the default length
NextGen ==
    \/ \E length \in 0..MaxLen : \E draw \in [1..length -> Picks] :
           call_generateshortcode(length, draw)
    \/ \E p \in Procs, url \in Urls, d \in Draws :
           /\ shorten_url(p, url, generateshortcode(DefaultLength, d))
           /\ UNCHANGED <<held, gen, conns, running, boots>>
    \/ \E p \in Procs :
           insert_commit(p) /\ UNCHANGED <<held, gen, conns, running, boots>>

SpecGen == Init /\ [][NextGen]_vars

(* ------------------------------ helpers --------------------------------- *)

Pair(r) == [url |-> r.url, short_url |-> r.short_url]

\* the handler p completes a write in this step
Commits(p, from) == pc[p] = from /\ pc'[p] = "idle"

HasCode(rs, code) == \E i \in 1..Len(rs) : rs[i].short_url = code

\* number of rows of rs that carry the pair v
CountRows(rs, v) == Cardinality({i \in 1..Len(rs) : Pair(rs[i]) = v})

\* number of entries of a listing equal to v
CountItems(items, v) == Cardinality({i \in 1..Len(items) : items[i] = v})

(* ------------------------------- claims --------------------------------- *)

\* C1: round trip.  In every store state, when POST /shortenURL with url u
\* has returned code C and GET /s/C is the next request to complete, that
\* GET returns exactly [u].
C1_RoundTrip ==
    [][(/\ last.op = "shorten"
        /\ last.status = 200
        /\ last'.op = "lookup"
        /\ last'.code = last.code)
       => (~last'.null /\ last'.tuple = <<last.url>>)]_vars

\* C2: GET /s/c answers 200 in every store state; its body is null exactly
\* when no stored row has short code c, and otherwise a one-element array
\* holding the url of a stored row whose short code is c.
C2_LookupFoundIffStored ==
    last.op = "lookup" =>
        /\ last.status = 200
        /\ last.null <=> ~HasCode(rows, last.code)
        /\ last.null => last.tuple = <<>>
        /\ ~last.null =>
              /\ Len(last.tuple) = 1
              /\ \E i \in 1..Len(rows) :
                     rows[i].short_url = last.code /\ rows[i].url = last.tuple[1]

C2_Witness ==
    /\ last.op = "lookup"
    /\ ~last.null
    /\ Len(Matching(rows, last.code)) >= 2
    /\ \E i \in 1..Len(rows) : rows[i].short_url # last.code

\* C3: once delete(c) has completed and until an insert stores a row with
\* code c, no row carries c and every lookup of c returns null, however
\* many rows carried c before the delete.
C3_DeletedNotFound ==
    /\ \A c \in deleted : ~HasCode(rows, c)
    /\ (last.op = "lookup" /\ last.code \in deleted) => last.null

C3_Witness ==
    /\ last.op = "lookup"
    /\ last.null
    /\ deleted = {last.code}
    /\ rows = <<>>
    /\ seq >= 2

\* C4: the commit of delete(c) removes every row whose short code is c and
\* no other row: each row with another code is still stored unchanged, in
\* the same order, and every other code resolves to the same url as before.
C4_DeleteFrame ==
    [][\A p \in Procs : Commits(p, "delete_commit") =>
          LET c == req[p].code IN
          /\ ~HasCode(rows', c)
          /\ \A i \in 1..Len(rows) :
                rows[i].short_url # c =>
                    \E j \in 1..Len(rows') : rows'[j] = rows[i]
          /\ \A j \in 1..Len(rows') : \E i \in 1..Len(rows) : rows[i] = rows'[j]
          /\ Len(rows') =
                Cardinality({i \in 1..Len(rows) : rows[i].short_url # c})
          /\ \A c2 \in Codes \ {c} : get_url(rows', c2) = get_url(rows, c2)
      ]_vars

C4_Witness ==
    /\ last.op = "delete"
    /\ rows # <<>>
    /\ seq - Len(rows) >= 2
    /\ ~HasCode(rows, last.code)

\* C5: list_all is newest-first: a row inserted later always appears before
\* a row inserted earlier, so the listing is the stored rows in reverse
\* insertion order.
C5_NewestFirst ==
    last.op = "list" =>
        /\ Len(last.items) = Len(rows)
        /\ \A i \in 1..Len(rows) :
               last.items[i] = Pair(rows[Len(rows) + 1 - i])

\* C6: list_all returns every stored row exactly once as a {url, short_url}
\* pair: its length is the number of rows inserted and not since deleted,
\* and it is the empty list on an empty store.
C6_ListComplete ==
    last.op = "list" =>
        /\ ~last.null
        /\ Len(last.items) = Len(rows)
        /\ \A i \in 1..Len(rows) :
               CountItems(last.items, Pair(rows[i])) =
                   CountRows(rows, Pair(rows[i]))
        /\ \A k \in 1..Len(last.items) :
               \E i \in 1..Len(rows) : Pair(rows[i]) = last.items[k]
        /\ rows = <<>> => last.items = <<>>

C6_Witness ==
    /\ last.op = "list"
    /\ Len(last.items) >= 2
    /\ Len(rows) < seq
    /\ \E i, j \in 1..Len(rows) : i # j /\ Pair(rows[i]) = Pair(rows[j])

\* C7: POST /shortenURL ends in the validation error 422, leaving the store
\* unchanged, exactly when url is missing; with any url value, the empty
\* string included, it answers 200 and adds exactly one row holding that
\* value.
C7_ValidationOnlyWhenMissing ==
    [][(\/ last' # last /\ last'.op = "shorten"
        \/ \E p \in Procs : Commits(p, "insert_commit"))
       => /\ last'.op = "shorten"
          /\ last'.status = 422 <=> last'.url = Missing
          /\ last'.status = 422 => rows' = rows
          /\ last'.status # 422 =>
                /\ last'.status = 200
                /\ Len(rows') = Len(rows) + 1
                /\ SubSeq(rows', 1, Len(rows)) = rows
                /\ rows'[Len(rows')].url = last'.url
                /\ rows'[Len(rows')].short_url = last'.code
      ]_vars

C7_Witness ==
    /\ last.op = "shorten"
    /\ last.url = ""
    /\ last.status = 200
    /\ rows # <<>>
    /\ rows[Len(rows)].url = ""
    /\ Len(rows) >= 2

\* C8: for N shorten requests running concurrently in any interleaving,
\* with no delete, every request succeeds, the store gains exactly N rows,
\* and each caller that resolves the code it was given gets back the url it
\* submitted.
C8_ConcurrentShorten ==
    /\ last.op = "shorten" => last.status = 200
    /\ (\A p \in Procs : held[p].step # "start") => Len(rows) = NumProcs
    /\ \A p \in Procs :
          held[p].step = "verified" =>
              (~held[p].null /\ held[p].tuple = <<held[p].url>>)

\* C9: the short codes returned by any set of shorten requests, issued one
\* after another or concurrently, are pairwise distinct.
C9_CodesPairwiseDistinct ==
    \A p, q \in Procs :
        (p # q /\ held[p].step # "start" /\ held[q].step # "start") =>
            held[p].code # held[q].code

\* C10: when two urls are inserted under the same short code, u1 and then
\* u2, lookup of that code returns u2, the most recently inserted url.
C10_LookupReturnsLatest ==
    (last.op = "lookup" /\ HasCode(rows, last.code)) =>
        LET m == Matching(rows, last.code)
        IN  last.tuple = <<m[Len(m)].url>>

\* C11: a delete of a code that no row carries answers 200 with body null
\* and leaves the table and the ID counter unchanged; the code is still
\* absent afterwards, so a second delete of it gives the same response and
\* the same store.
C11_DeleteAbsentIdempotent ==
    [][\A p \in Procs :
          (Commits(p, "delete_commit") /\ ~HasCode(rows, req[p].code)) =>
              /\ rows' = rows
              /\ seq' = seq
              /\ ~HasCode(rows', req[p].code)
              /\ last'.op = "delete"
              /\ last'.code = req[p].code
              /\ last'.status = 200
              /\ last'.null
              /\ (last.op = "delete" /\ last.code = req[p].code) =>
                     last' = last
      ]_vars

C11_Witness ==
    /\ last.op = "delete"
    /\ last.status = 200
    /\ rows # <<>>
    /\ Len(rows) = seq
    /\ ~HasCode(rows, last.code)

RowIds(rs) == {rs[i].id : i \in 1..Len(rs)}

\* C16: record ids are never reused: the id a committed insert assigns is
\* strictly greater than every id assigned before it, the ids of rows since
\* deleted included, so no two rows ever stored share an id.
C16_IdsNeverReused ==
    /\ [][\A p \in Procs : Commits(p, "insert_commit") =>
             LET id == rows'[Len(rows')].id
             IN  /\ id \notin issued
                 /\ \A i \in issued : i < id
                 /\ \A k \in 1..Len(rows) : rows[k].id < id
         ]_vars
    /\ [](/\ RowIds(rows) \subseteq issued
          /\ Cardinality(RowIds(rows)) = Len(rows))

C16_Witness ==
    /\ last.op = "shorten"
    /\ rows # <<>>
    /\ \E i \in issued :
           /\ i \notin RowIds(rows)
           /\ i < rows[Len(rows)].id
           /\ \A k \in 1..(Len(rows) - 1) : rows[k].id < i

\* the 62 characters a-z, A-Z, 0-9
Alphanumeric ==
    {"a", "b", "c", "d", "e", "f", "g", "h", "i", "j", "k", "l", "m",
     "n", "o", "p", "q", "r", "s", "t", "u", "v", "w", "x", "y", "z",
     "A", "B", "C", "D", "E", "F", "G", "H", "I", "J", "K", "L", "M",
     "N", "O", "P", "Q", "R", "S", "T", "U", "V", "W", "X", "Y", "Z",
     "0", "1", "2", "3", "4", "5", "6", "7", "8", "9"}

IsCode(code, length) ==
    /\ Len(code) = length
    /\ \A i \in 1..Len(code) : code[i] \in Alphanumeric

\* C12: generate_code(length) returns a string of exactly length characters,
\* each one of the 62 characters a-z, A-Z, 0-9; with the default length,
\* every code that POST /shortenURL returns or stores has length 6.
C12_CodeLengthAndAlphabet ==
    /\ Cardinality(Alphanumeric) = 62
    /\ IsCode(gen.code, gen.length)
    /\ \A i \in 1..Len(rows) : IsCode(rows[i].short_url, 6)
    /\ \A p \in Procs : pc[p] = "insert_commit" => IsCode(req[p].code, 6)
    /\ (last.op = "shorten" /\ last.status = 200) => IsCode(last.code, 6)

C12_Witness ==
    /\ gen.length = 2
    /\ gen.code = <<"Z", "9">>
    /\ last.op = "shorten"
    /\ last.status = 200
    /\ Len(rows) >= 2
    /\ rows[1].short_url # rows[2].short_url

\* C13: when delete requests for the codes of all stored records run
\* concurrently in any interleaving, with no insert at the same time, every
\* delete answers 200 and the store is empty once all have completed.
C13_ConcurrentDeletesEmptyStore ==
    /\ last.op = "delete" => last.status = 200
    /\ (\A p \in Procs : held[p].step = "deleted") => rows = <<>>
    /\ \A p \in Procs :
          held[p].step = "deleted" => ~HasCode(rows, held[p].code)

C13_Witness ==
    /\ \A p \in Procs : held[p].step = "deleted"
    /\ rows = <<>>
    /\ seq = NumProcs
    /\ \E p, q \in Procs : held[p].code # held[q].code

\* C17: a stored record is never modified: every step (an insert of another
\* record, a lookup, a listing, a delete of another code, a failed write, a
\* crash, a restart with its init_db) leaves each record that is stored
\* before and after it with the same id, url, short_url and created_at, and
\* the surviving records in the same order; and only a committing insert or
\* delete adds or removes records, so lookups and listings do neither.
C17_RecordsImmutable ==
    /\ [][/\ \A i \in 1..Len(rows), j \in 1..Len(rows') :
                 rows[i].id = rows'[j].id => rows[i] = rows'[j]
          /\ SelectSeq(rows, LAMBDA r : r.id \in RowIds(rows')) =
                 SelectSeq(rows', LAMBDA r : r.id \in RowIds(rows))
          /\ rows' # rows =>
                 \E p \in Procs :
                     /\ \/ Commits(p, "insert_commit")
                        \/ Commits(p, "delete_commit")
                     /\ last'.status = 200
                     /\ last'.op \in {"shorten", "delete"}
         ]_vars
    /\ [](\A i, j \in 1..Len(rows) : rows[i].id = rows[j].id => i = j)

C17_Witness ==
    /\ running
    /\ boots >= 2
    /\ Len(rows) >= 2
    /\ rows[1].id = 1
    /\ rows[1].short_url = rows[2].short_url
    /\ rows[1].url # rows[2].url
    /\ Len(rows) < seq
    /\ last.op = "list"

\* the handler p leaves its write without a 200, or dies with the process
Fails(p) ==
    /\ pc[p] # "idle"
    /\ pc'[p] = "idle"
    /\ last'.status # 200 \/ ~running'

\* C18: each insert and delete is all-or-nothing.  A step leaves the table
\* as it was, or adds exactly the record of one committing insert, or
\* removes every record of the code of one committing delete, never only
\* some of them; a write that fails, or is cut off by a crash, before its
\* commit leaves the table and the id sequence as they were; and a lookup or
\* a listing that completes while a delete is uncommitted sees every record
\* of that code.
C18_AllOrNothing ==
    [][/\ \/ rows' = rows /\ seq' = seq
          \/ \E p \in Procs :
                /\ Commits(p, "insert_commit")
                /\ last'.status = 200
                /\ Len(rows') = Len(rows) + 1
                /\ SubSeq(rows', 1, Len(rows)) = rows
                /\ Pair(rows'[Len(rows')]) =
                       [url |-> req[p].url, short_url |-> req[p].code]
          \/ \E p \in Procs :
                /\ Commits(p, "delete_commit")
                /\ last'.status = 200
                /\ ~HasCode(rows', req[p].code)
                /\ rows' = SelectSeq(rows,
                                     LAMBDA r : r.short_url # req[p].code)
       /\ (\E p \in Procs : Fails(p)) => rows' = rows /\ seq' = seq
       /\ \A q \in Procs :
             (pc[q] = "delete_commit" /\ last' # last) =>
                 /\ last'.op = "list" =>
                        \A u \in Urls :
                            LET v == [url |-> u, short_url |-> req[q].code]
                            IN  CountItems(last'.items, v) = CountRows(rows, v)
                 /\ (last'.op = "lookup" /\ last'.code = req[q].code) =>
                        (last'.null <=> ~HasCode(rows, req[q].code))
      ]_vars

C18_Witness ==
    /\ running
    /\ last.op = "delete"
    /\ last.status = 500
    /\ Len(Matching(rows, last.code)) >= 2
    /\ Len(rows) = seq

\* C19: records survive a restart of the process.  The process going down
\* leaves the table and the id sequence as they are; init_db, which every
\* start runs, creates an empty table when there is none and otherwise
\* changes nothing, however many times the process has started before.
C19_SurvivesRestart ==
    [][/\ (running /\ ~running') =>
             rows' = rows /\ seq' = seq /\ boots' = boots
       /\ (~running /\ running') =>
             /\ boots' = boots + 1
             /\ boots = 0 => rows' = <<>> /\ seq' = 0
             /\ boots > 0 => rows' = rows /\ seq' = seq
      ]_vars

C19_Witness ==
    /\ running
    /\ boots = MaxBoots
    /\ Len(rows) = MaxId
    /\ last.op = "lookup"
    /\ ~last.null

\* C20: every store operation releases the connection it acquired on every
\* exit path: whenever no operation is in progress, no connection is open.
C20_NoOpenConnections ==
    (\A p \in Procs : pc[p] = "idle") => conns = 0
====
